---- MODULE Spec2Model ----
(***************************************************************************)
(* The three lint-fixing scripts of antevus-app: fix_eslint.py,            *)
(* fix_all_eslint.py and fix_final_eslint.py.  Each defines the same       *)
(* fix_file(filepath, fixes), calls it on a hand-written table of files,   *)
(* optionally rewrites linter configuration files, and runs 'npm run lint'.*)
(*                                                                         *)
(* A file's text is a sequence of chunks (strings): the literal pieces the *)
(* scripts' patterns are made of, a filler chunk and a newline chunk.  A   *)
(* pattern is a sequence of regex elements matched chunk by chunk with     *)
(* Python's backtracking order; a match always starts and ends on a chunk  *)
(* boundary.                                                               *)
(***************************************************************************)
EXTENDS Integers, Sequences, FiniteSets, TLC

VARIABLES
    fs,        \* the filesystem: path -> [e: the file exists, d: its text]
    console,   \* the lines printed so far by the running process
    ops,       \* the filesystem and process operations performed so far
    script,    \* the script being run (Spec)
    ip,        \* index of the next statement of the script's module body
    status,    \* "running", "done" (fell off the end), "aborted" (uncaught exception)
    lint,      \* the CompletedProcess of subprocess.run, once it has returned
    ran,       \* the scripts already run to completion in this working tree
    pc,        \* position inside one stepped fix_file call (FixSpec)
    filepath,  \* fix_file's argument
    fixes,     \* fix_file's argument
    content,   \* fix_file's local
    original,  \* fix_file's local
    i,         \* position of fix_file's for loop in fixes
    before,    \* the filesystem when the stepped fix_file call began
    crashed    \* the process was killed in the middle of the call

vars == <<fs, console, ops, script, ip, status, lint, ran,
          pc, filepath, fixes, content, original, i, before, crashed>>

scriptVars == <<script, ip, status, lint, ran>>
callVars == <<pc, filepath, fixes, content, original, i, crashed>>

\* Longest file text (in chunks) the stepped fix_file call is tried on.
MaxLen == 3
\* Largest number of target files missing from the working tree at the start.
MaxMissing == 1

-----------------------------------------------------------------------------
(* The chunks that contain a '}' and those that contain a newline: what    *)
(* the classes [^}] and [^\n] exclude.                                     *)

ClosingBrace == {
    "        }\n",
    "    },\n",
    "  }\n",
    "(error as { message?: string })?.message",
    "(thread as { messages: unknown[] }).messages.map((msg: unknown) => ({",
    "\n    // Type for window with protocol\n    interface WindowWithProtocol extends Window {\n      __pendingProtocol?: { protocolId: string; threadId: string; messageId: string };\n    }\n",
    "const CustomTooltip = ({ active, payload, label }: any)",
    "const CustomTooltip = ({ active, payload, label }: { active?: boolean; payload?: Array<{ color: string; name: string; value: number }>; label?: string })",
    "const parsedThreads = result.threads.map((thread: { id: string; title: string; messages: Array<{ id: string }> }) => ({",
    "const { data }",
    "const { data, error }",
    "const { error }",
    "const { error: _error }",
    "const { protocolId } = ",
    "const { protocolId, threadId, messageId } = ",
    "const { session, user }",
    "const { user }",
    "if ((error as { status?: number })?.status",
    "import type { ReportPlan } from '@/types/reports'\n",
    "import { ArrowLeft, Download, Mail, Share2, CheckCircle2, XCircle, AlertCircle }",
    "import { CalendarIcon, ChartBarIcon, BeakerIcon, ClockIcon } from '@heroicons/react/24/outline'",
    "import { CalendarIcon, ChartBarIcon, BeakerIcon, ClockIcon, ChartPieIcon, FlagIcon, EnvelopeIcon } from '@heroicons/react/24/outline'",
    "import { Card, CardHeader, CardContent, CardFooter } from '@/components/ui/card'\nimport { Badge } from '@/components/ui/badge'\nimport { Button } from '@/components/ui/button'\n",
    "import { FlatCompat } from '@eslint/eslintrc';\n",
    "import { UserRole } from",
    "import { fileURLToPath } from 'url';\n",
    "import { format } from 'date-fns'\n",
    "import { signIn, signUp, signOut, getCurrentUser, getSession }",
    "import { signIn, signUp, signOut, getSession }",
    "import {}",
    "label={(props: { percent: number })",
    "thread.messages.map((msg: { id: string }) => ({",
    "}",
    "} catch (_dbError)",
    "} catch (_error)",
    "} catch (dbError)",
    "} catch (error)",
    "} from",
    "} from 'lucide-react'",
    "} from 'recharts'",
    "});\n",
    "}, [])",
    "}, [supabase.auth])"}

HasNewline == {
    "          argsIgnorePattern: '^_',\n",
    "          ignoreRestSiblings: true\n",
    "          varsIgnorePattern: '^_',\n",
    "        'error',\n",
    "        {\n",
    "        }\n",
    "      '@typescript-eslint/no-explicit-any': 'error',\n",
    "      '@typescript-eslint/no-require-imports': 'off',\n",
    "      '@typescript-eslint/no-unused-vars': [\n",
    "      '@typescript-eslint/no-var-requires': 'off',\n",
    "      'prefer-const': 'error',\n",
    "      'react-hooks/exhaustive-deps': 'error'\n",
    "      ],\n",
    "    ignores: ['scripts/**', 'test-*.js', '*.js', 'fix_*.py']\n",
    "    rules: {\n",
    "    },\n",
    "  ...compat.extends('next/core-web-vitals', 'plugin:@typescript-eslint/recommended'),\n",
    "  baseDirectory: __dirname\n",
    "  {\n",
    "  }\n",
    "// eslint-disable-next-line @typescript-eslint/no-explicit-any\n",
    "\n",
    "\n    // Type for window with protocol\n    interface WindowWithProtocol extends Window {\n      __pendingProtocol?: { protocolId: string; threadId: string; messageId: string };\n    }\n",
    "\n  LineChart,\n  Line,\n  XAxis,\n  YAxis,\n  CartesianGrid,\n  Tooltip,\n  ",
    "];\n",
    "const __dirname = path.dirname(__filename);\n",
    "const __filename = fileURLToPath(import.meta.url);\n",
    "const compat = new FlatCompat({\n",
    "const config = [\n",
    "const originalInput = input.trim()\n",
    "export default config;\n",
    "import path from 'path';\n",
    "import type { ReportPlan } from '@/types/reports'\n",
    "import { Card, CardHeader, CardContent, CardFooter } from '@/components/ui/card'\nimport { Badge } from '@/components/ui/badge'\nimport { Button } from '@/components/ui/button'\n",
    "import { FlatCompat } from '@eslint/eslintrc';\n",
    "import { fileURLToPath } from 'url';\n",
    "import { format } from 'date-fns'\n",
    "scripts/\n",
    "test-credential-security.js\n",
    "});\n"}

\* The chunks that end in a newline character: '^' matches just after them.
EndsWithNewline(c) ==
    c \in HasNewline \ {"\n  LineChart,\n  Line,\n  XAxis,\n  YAxis,\n  CartesianGrid,\n  Tooltip,\n  "}

-----------------------------------------------------------------------------
(* Regular expressions, as re.sub(pattern, repl, content,                  *)
(* flags=re.MULTILINE | re.DOTALL) uses them.                              *)

\* The element of a one-element set.
The(S) == CHOOSE r \in S : TRUE

FILLER == "x"
NL == "\n"
\* The replacement template's reference to group 1.
G1 == "\\1"

\* A literal piece of a pattern.
L(s) == [t |-> "lit", s |-> s, set |-> {}, neg |-> FALSE, min |-> 0, lazy |-> FALSE]
\* A repeated character class: the chunks in set (neg: the chunks not in it).
Rep(neg, set, min, lazy) ==
    [t |-> "rep", s |-> "", set |-> set, neg |-> neg, min |-> min, lazy |-> lazy]
\* '^' under re.MULTILINE.
Bol == [t |-> "bol", s |-> "", set |-> {}, neg |-> FALSE, min |-> 0, lazy |-> FALSE]
\* '.*' under re.DOTALL and '[\s\S]*?': any character, newlines included.
AnyGreedy == Rep(TRUE, {}, 0, FALSE)
AnyLazy == Rep(TRUE, {}, 0, TRUE)

Lits(ss) == [n \in 1..Len(ss) |-> L(ss[n])]

Fix(pat, rep) == [pat |-> pat, rep |-> rep]
\* A pair whose pattern is plain (escaped) text.
Plain(ps, rep) == Fix(Lits(ps), rep)

InClass(e, c) == (c \in e.set) # e.neg

\* How many chunks from pos on belong to the class of element e.
RunLen(e, text, pos) ==
    CHOOSE n \in 0..(Len(text) + 1 - pos) :
        /\ \A j \in 0..(n - 1) : InClass(e, text[pos + j])
        /\ n = Len(text) + 1 - pos \/ ~InClass(e, text[pos + n])

RECURSIVE MatchEnd(_, _, _, _)

\* The ways a repetition at pos can go on to a match of pat[k+1..]: the
\* counts n it may take, each with the position the match then ends at.
Continuations(pat, k, text, pos) ==
    {c \in {<<n, MatchEnd(pat, k + 1, text, pos + n)>> :
               n \in pat[k].min..RunLen(pat[k], text, pos)} : c[2] # 0}

\* The position just after the match of pat[k..] at pos, 0 when there is none.
\* A repetition takes the first count, in the order Python's backtracking
\* tries them, with which the rest of the pattern matches: the largest for a
\* greedy repetition, the smallest for a lazy one.
MatchEnd(pat, k, text, pos) ==
    IF k > Len(pat) THEN pos
    ELSE LET e == pat[k] IN
         CASE e.t = "lit" ->
                IF pos <= Len(text) /\ text[pos] = e.s
                THEN MatchEnd(pat, k + 1, text, pos + 1)
                ELSE 0
           [] e.t = "bol" ->
                IF pos = 1 \/ EndsWithNewline(text[pos - 1])
                THEN MatchEnd(pat, k + 1, text, pos)
                ELSE 0
           [] OTHER ->
                The({ IF ok = {} THEN 0
                      ELSE (CHOOSE c \in ok : \A o \in ok :
                               IF e.lazy THEN c[1] <= o[1] ELSE c[1] >= o[1])[2]
                    : ok \in {Continuations(pat, k, text, pos)} })

\* The replacement template with \1 expanded.  In both patterns that have a
\* group, the group encloses the whole pattern, so group 1 is the whole match.
RECURSIVE Expand(_, _)
Expand(rep, m) ==
    IF rep = <<>> THEN <<>>
    ELSE (IF Head(rep) = G1 THEN m ELSE <<Head(rep)>>) \o Expand(Tail(rep), m)

\* re.sub from position at on: the leftmost non-overlapping matches are
\* replaced, the text between them is kept.  Every pattern of the three
\* scripts contains a literal, so a match is never empty and the scan resumes
\* at its end.  (pos and e are bound to the position and to the end of the
\* match at it, each computed once.)
RECURSIVE SubFrom(_, _, _, _)
SubFrom(pat, rep, text, at) ==
    The({ IF pos > Len(text) THEN <<>>
          ELSE IF e = 0 THEN <<text[pos]>> \o SubFrom(pat, rep, text, pos + 1)
          ELSE Expand(rep, SubSeq(text, pos, e - 1)) \o SubFrom(pat, rep, text, e)
        : pos \in {at}, e \in {MatchEnd(pat, 1, text, at)} })

\* re.sub(pattern, repl, string, flags=re.MULTILINE | re.DOTALL)
ReSub(pattern, repl, string) ==
    The({SubFrom(pat, rep, text, 1) : pat \in {pattern}, rep \in {repl}, text \in {string}})

\* re.search: the pattern matches somewhere in the text.
Matches(pat, text) == \E pos \in 1..(Len(text) + 1) : MatchEnd(pat, 1, text, pos) # 0

-----------------------------------------------------------------------------
(* The target files.                                                       *)

AssistantPage == "src/app/(dashboard)/assistant/page.tsx"
ScheduleRouteTsx == "src/app/api/reports/schedule/route.tsx"
ScheduleRouteTs == "src/app/api/reports/schedule/route.ts"
ReportsPage == "src/app/reports/[id]/page.tsx"
RunsPage == "src/app/runs/[id]/page.tsx"
ReportModal == "src/components/reports/ReportModal.tsx"
ReportPreview == "src/components/reports/ReportPreview.tsx"
ReportPlanCard == "src/components/reports/ReportPlanCard.tsx"
SignupPage == "src/app/signup/page.tsx"
SessionContext == "src/contexts/supabase-session-context.tsx"
ChatContext == "src/contexts/chat-context.tsx"
XssProtection == "src/lib/security/xss-protection.ts"
AuthManager == "src/lib/security/auth-manager.ts"
SupabaseServer == "src/lib/supabase/server.ts"
OnboardingProfile == "src/app/api/onboarding/profile/route.ts"
OnboardingRole == "src/app/api/onboarding/role/route.ts"
UsersSync == "src/app/api/users/sync/route.ts"
CredentialsRoute == "src/app/api/integrations/[id]/credentials/route.ts"

EslintIgnorePath == ".eslintignore"
EslintRcPath == ".eslintrc.json"
EslintConfigPath == "eslint.config.mjs"

-----------------------------------------------------------------------------
(* fix_eslint.py: the tables of its sixteen fix_file calls.                *)

E_assistant == <<
    Plain(<<"import { format } from 'date-fns'\n">>, <<>>),
    Plain(<<": any[]">>, <<": unknown[]">>),
    Plain(<<"catch (e: any)">>, <<"catch (e: unknown)">>),
    Plain(<<"onChange: (messages", ": any[]", ")">>,
          <<"onChange: (messages", ": Message[]", ")">>),
    Plain(<<"setMessages(prev => (prev as any)">>,
          <<"setMessages(prev => (prev as Message[])">>),
    Plain(<<"const [threadId, messageId] = e.detail as any;">>,
          <<"const [_threadId, _messageId] = e.detail as [string, string];">>) >>

E_schedule == <<
    Plain(<<"const mockScheduledReports: any[]">>, <<"const mockScheduledReports: unknown[]">>),
    Plain(<<"} catch (error)", " {">>, <<"} catch (_error)", " {">>) >>

E_reports == <<
    Fix(<<L("import { "), AnyGreedy, L(", Calendar, Clock,"), AnyGreedy>>,
        <<"import { ArrowLeft, Download, Mail, Share2, CheckCircle2, XCircle, AlertCircle }",
          " from 'lucide-react';">>),
    Plain(<<"const [reportData, setReportData] = useState<any>">>,
          <<"const [reportData, setReportData] = useState<unknown>">>),
    Plain(<<".map((run: any)">>, <<".map((run: unknown)">>) >>

E_runs == <<
    Fix(<<L("import {"), AnyLazy, L("ResponsiveContainer"), AnyLazy, L("} from 'recharts'")>>,
        <<"import {",
          "\n  LineChart,\n  Line,\n  XAxis,\n  YAxis,\n  CartesianGrid,\n  Tooltip,\n  ",
          "ResponsiveContainer", NL, "} from 'recharts'">>) >>

E_modal == <<
    Plain(<<"const [reportData, setReportData] = useState<any>">>,
          <<"const [reportData, setReportData] = useState<unknown>">>) >>

E_preview == <<
    Fix(<<L("const [selectedInstruments, setSelectedInstruments] = useState<string[]>([]);"),
          Rep(FALSE, {NL, " "}, 0, FALSE)>>, <<>>),
    Plain(<<"const CustomTooltip = ({ active, payload, label }: any)">>,
          <<"const CustomTooltip = ({ active, payload, label }: { active?: boolean; payload?: Array<{ color: string; name: string; value: number }>; label?: string })">>),
    Plain(<<"payload.map((entry: any, index: number)">>,
          <<"payload.map((entry, index: number)">>),
    Plain(<<"label={(props: any)">>, <<"label={(props: { percent: number })">>) >>

E_plancard == <<
    Fix(<<L("import {"), AnyLazy, L("DocumentArrowDownIcon"), AnyLazy, L("} from"),
          Rep(TRUE, HasNewline, 1, FALSE), L(NL)>>,
        <<"import { CalendarIcon, ChartBarIcon, BeakerIcon, ClockIcon } from '@heroicons/react/24/outline'",
          ";", NL>>) >>

E_signup == << Plain(<<"const { data, error }">>, <<"const { error }">>) >>

E_session == <<
    Plain(<<"import { signIn, signUp, signOut, getCurrentUser, getSession }">>,
          <<"import { signIn, signUp, signOut, getSession }">>),
    Fix(<<L("import { UserRole } from"), Rep(TRUE, HasNewline, 1, FALSE), L(NL)>>, <<>>),
    Plain(<<"const { session, user }">>, <<"const { user }">>),
    Plain(<<"const { data, error }">>, <<"const { data }">>),
    Plain(<<"}, [])">>, <<"}, [supabase.auth])">>) >>

E_chat == <<
    Plain(<<"assistantMessageId: string | any">>, <<"assistantMessageId: string | unknown">>) >>

E_xss == <<
    Plain(<<"sanitizeObject(obj: any)">>, <<"sanitizeObject(obj: Record<string, unknown>)">>) >>

E_auth == <<
    Fix(<<L("function validateProductionConfig"), AnyLazy, Bol, L("}")>>, <<>>) >>

E_server == << Plain(<<"} catch (error)", " {">>, <<"} catch (_error)", " {">>) >>

E_profile == <<
    Plain(<<"} catch (error)", " {">>, <<"} catch (_error)", " {">>),
    Plain(<<"} catch (dbError)", " {">>, <<"} catch (_dbError)", " {">>),
    Plain(<<"const _ =">>, <<"const _unused =">>) >>

E_role == << Plain(<<"} catch (dbError)", " {">>, <<"} catch (_dbError)", " {">>) >>

E_sync == <<
    Plain(<<"export async function POST(request:", " NextRequest)">>,
          <<"export async function POST(_request:", " NextRequest)">>) >>

-----------------------------------------------------------------------------
(* fix_all_eslint.py: the tables of its fourteen fix_file calls.           *)

assistant_fixes == <<
    Fix(<<L("const handleSubmit = async (e: React.FormEvent) => {"),
          Rep(TRUE, ClosingBrace, 0, TRUE),
          L("const originalInput = input.trim()\n")>>,
        <<G1, "\n    // Type for window with protocol\n    interface WindowWithProtocol extends Window {\n      __pendingProtocol?: { protocolId: string; threadId: string; messageId: string };\n    }\n">>),
    Plain(<<"(window as any).__pendingProtocol">>,
          <<"(window as unknown as WindowWithProtocol).__pendingProtocol">>),
    Plain(<<"const { protocolId, threadId, messageId } = ">>, <<"const { protocolId } = ">>) >>

A_schedule == <<
    Plain(<<"const mockScheduledReports: any[]">>, <<"const mockScheduledReports: unknown[]">>),
    Plain(<<"} catch (error)", " {">>, <<"} catch (_error)", " {">>) >>

A_reports == <<
    Plain(<<"import { ArrowLeft, Download, Mail, Share2, CheckCircle2, XCircle, AlertCircle }">>,
          <<"import {}">>) >>

A_runs == <<
    Fix(<<L("import {"), Rep(TRUE, ClosingBrace, 1, FALSE), L("} from 'lucide-react'")>>,
        <<"import {",
          " ArrowLeft, Download, Share2, Activity, Clock, Beaker, TrendingUp, AlertCircle, CheckCircle, XCircle, FileText ",
          "} from 'lucide-react'">>),
    Fix(<<L("import {"), Rep(TRUE, ClosingBrace, 1, FALSE), L("} from 'recharts'")>>,
        <<"import {",
          " LineChart, Line, XAxis, YAxis, CartesianGrid, Tooltip, ResponsiveContainer, PieChart, Pie, Cell, Legend ",
          "} from 'recharts'">>) >>

A_plancard == <<
    Plain(<<"import { CalendarIcon, ChartBarIcon, BeakerIcon, ClockIcon } from '@heroicons/react/24/outline'">>,
          <<"import { CalendarIcon, ChartBarIcon, BeakerIcon, ClockIcon, ChartPieIcon, FlagIcon, EnvelopeIcon } from '@heroicons/react/24/outline'">>),
    Fix(<<L("import type { ReportPlan } from '@/types/reports'\n")>>,
        <<G1, "import { Card, CardHeader, CardContent, CardFooter } from '@/components/ui/card'\nimport { Badge } from '@/components/ui/badge'\nimport { Button } from '@/components/ui/button'\n">>) >>

A_credentials == <<
    Plain(<<"(req:">>, <<"(_req:">>),
    Plain(<<", userId:">>, <<", _userId:">>),
    Plain(<<", user:">>, <<", _user:">>) >>

A_profile == <<
    Plain(<<"const { error }">>, <<"const { error: _error }">>),
    Plain(<<"} catch (dbError)">>, <<"} catch (_dbError)">>),
    Plain(<<"} catch (error)">>, <<"} catch (_error)">>),
    Plain(<<"const _ =">>, <<"const _unused =">>) >>

A_role == << Plain(<<"} catch (dbError)">>, <<"} catch (_dbError)">>) >>

A_sync == <<
    Plain(<<"export async function POST(request:">>, <<"export async function POST(_request:">>) >>

A_chat == <<
    Plain(<<"assistantMessageId: string | any">>, <<"assistantMessageId: string | unknown">>) >>

A_xss == <<
    Plain(<<"sanitizeObject(obj: any)">>, <<"sanitizeObject(obj: Record<string, unknown>)">>) >>

A_server == << Plain(<<"} catch (error)">>, <<"} catch (_error)">>) >>

A_signup == << Plain(<<"const { data, error }">>, <<"const { error }">>) >>

A_session == <<
    Plain(<<"const { session, user }">>, <<"const { user }">>),
    Plain(<<"const { data, error }">>, <<"const { data }">>) >>

eslintignore == <<"scripts/\n", "test-credential-security.js\n">>

-----------------------------------------------------------------------------
(* fix_final_eslint.py: the tables of its two fix_file calls, and the      *)
(* configuration it writes, line by line.                                  *)

F_chat == <<
    Plain(<<"} catch (error)", " {">>, <<"} catch (error)", " {">>),
    Plain(<<"if (error?.status">>, <<"if ((error as { status?: number })?.status">>),
    Plain(<<"error?.message">>, <<"(error as { message?: string })?.message">>),
    Plain(<<"const parsedThreads = result.threads.map((thread: unknown) => ({">>,
          <<"const parsedThreads = result.threads.map((thread: { id: string; title: string; messages: Array<{ id: string }> }) => ({">>),
    Plain(<<"(thread as { messages: unknown[] }).messages.map((msg: unknown) => ({">>,
          <<"thread.messages.map((msg: { id: string }) => ({">>),
    Plain(<<"// eslint-disable-next-line @typescript-eslint/no-explicit-any\n">>, <<>>) >>

F_xss == <<
    Plain(<<"return String(input)">>, <<"return String(input as string | number | boolean)">>) >>

eslint_config == <<
    "import { FlatCompat } from '@eslint/eslintrc';\n",
    "import path from 'path';\n",
    "import { fileURLToPath } from 'url';\n",
    "\n",
    "const __filename = fileURLToPath(import.meta.url);\n",
    "const __dirname = path.dirname(__filename);\n",
    "\n",
    "const compat = new FlatCompat({\n",
    "  baseDirectory: __dirname\n",
    "});\n",
    "\n",
    "const config = [\n",
    "  ...compat.extends('next/core-web-vitals', 'plugin:@typescript-eslint/recommended'),\n",
    "  {\n",
    "    rules: {\n",
    "      '@typescript-eslint/no-unused-vars': [\n",
    "        'error',\n",
    "        {\n",
    "          argsIgnorePattern: '^_',\n",
    "          varsIgnorePattern: '^_',\n",
    "          ignoreRestSiblings: true\n",
    "        }\n",
    "      ],\n",
    "      '@typescript-eslint/no-explicit-any': 'error',\n",
    "      '@typescript-eslint/no-require-imports': 'off',\n",
    "      '@typescript-eslint/no-var-requires': 'off',\n",
    "      'prefer-const': 'error',\n",
    "      'react-hooks/exhaustive-deps': 'error'\n",
    "    },\n",
    "    ignores: ['scripts/**', 'test-*.js', '*.js', 'fix_*.py']\n",
    "  }\n",
    "];\n",
    "\n",
    "export default config;\n" >>

-----------------------------------------------------------------------------
(* The module bodies: the statements each script runs after defining       *)
(* fix_file, in order.                                                     *)

Stmt(op, path, fx, data) == [op |-> op, path |-> path, fixes |-> fx, data |-> data]
Call(path, fx) == Stmt("fix_file", path, fx, <<>>)
WriteConfig(path, data) == Stmt("write", path, <<>>, data)
PrintLine(text) == Stmt("print", "", <<>>, <<text>>)
RemoveIfExists(path) == Stmt("remove", path, <<>>, <<>>)
RunLint == Stmt("lint", "", <<>>, <<>>)
PrintStdout == Stmt("print_stdout", "", <<>>, <<>>)
PrintStderr == Stmt("print_stderr", "", <<>>, <<>>)

LintTail == <<PrintLine("\nRunning ESLint to check remaining issues..."),
              RunLint, PrintStdout, PrintStderr>>

fix_eslint_py == <<
    Call(AssistantPage, E_assistant), Call(ScheduleRouteTsx, E_schedule),
    Call(ReportsPage, E_reports), Call(RunsPage, E_runs),
    Call(ReportModal, E_modal), Call(ReportPreview, E_preview),
    Call(ReportPlanCard, E_plancard), Call(SignupPage, E_signup),
    Call(SessionContext, E_session), Call(ChatContext, E_chat),
    Call(XssProtection, E_xss), Call(AuthManager, E_auth),
    Call(SupabaseServer, E_server), Call(OnboardingProfile, E_profile),
    Call(OnboardingRole, E_role), Call(UsersSync, E_sync) >> \o LintTail

fix_all_eslint_py == <<
    Call(AssistantPage, assistant_fixes), Call(ScheduleRouteTs, A_schedule),
    Call(ReportsPage, A_reports), Call(RunsPage, A_runs),
    Call(ReportPlanCard, A_plancard), Call(CredentialsRoute, A_credentials),
    Call(OnboardingProfile, A_profile), Call(OnboardingRole, A_role),
    Call(UsersSync, A_sync), Call(ChatContext, A_chat),
    Call(XssProtection, A_xss), Call(SupabaseServer, A_server),
    Call(SignupPage, A_signup), Call(SessionContext, A_session),
    WriteConfig(EslintIgnorePath, eslintignore),
    PrintLine("Created .eslintignore") >> \o LintTail

\* The lint run moved before the removal of the old configuration.
fix_final_lint_early == <<
    Call(ChatContext, F_chat), Call(XssProtection, F_xss),
    WriteConfig(EslintConfigPath, eslint_config),
    PrintLine("Created eslint.config.mjs with ignores"),
    PrintLine("\nRunning ESLint to check remaining issues..."),
    RunLint,
    RemoveIfExists(EslintRcPath),
    RemoveIfExists(EslintIgnorePath),
    PrintStdout, PrintStderr >>

fix_final_eslint_py == <<
    Call(ChatContext, F_chat), Call(XssProtection, F_xss),
    WriteConfig(EslintConfigPath, eslint_config),
    PrintLine("Created eslint.config.mjs with ignores"),
    RemoveIfExists(EslintRcPath),
    RemoveIfExists(EslintIgnorePath) >> \o LintTail

\* The three revisions, oldest first.
Revisions == <<"fix_eslint.py", "fix_all_eslint.py", "fix_final_eslint.py">>

Program(s) ==
    CASE s = "fix_eslint.py" -> fix_eslint_py
      [] s = "fix_all_eslint.py" -> fix_all_eslint_py
      [] OTHER -> fix_final_eslint_py

Range(seq) == {seq[n] : n \in DOMAIN seq}

AllStmts == Range(fix_eslint_py) \cup Range(fix_all_eslint_py) \cup Range(fix_final_eslint_py)
CallSites == {st \in AllStmts : st.op = "fix_file"}
Targets == {st.path : st \in CallSites}
ConfigPaths == {EslintIgnorePath, EslintRcPath, EslintConfigPath}
Paths == Targets \cup ConfigPaths

-----------------------------------------------------------------------------
(* The filesystem and what the scripts do to it.                           *)

File(text) == [e |-> TRUE, d |-> text]
NoFile == [e |-> FALSE, d |-> <<>>]

Op(op, path) == [op |-> op, path |-> path]

\* The check left out: every path is taken to exist.
ExistsAlways(fsys, p) == TRUE

\* os.path.exists(p)
Exists(fsys, p) == fsys[p].e

\* The file opened without cutting it (mode 'a' or 'r+' for 'w').
TruncateKeep(f) == File(f.d)

\* open(p, 'w'): the file is created or cut to length 0.
Truncate(f) == File(<<>>)

\* An existing file left as it is (mode 'x' for 'w', or a guard on existence).
OverwriteIfAbsent(fsys, p, data) ==
    IF fsys[p].e THEN fsys ELSE [fsys EXCEPT ![p] = File(data)]

\* with open(p, 'w') as f: f.write(data), once the with block has closed f.
Overwrite(fsys, p, data) ==
    [fsys EXCEPT ![p] = File(Truncate(fsys[p]).d \o data)]

\* What is on disk between f.write(data) and the close: the buffered writer
\* has flushed some prefix of data after what open left.
Flushed(old, data) == {File(old.d \o SubSeq(data, 1, n)) : n \in 0..Len(data)}

NotFoundLine(p) == <<"File not found: ", p>>
FixedLine(p) == <<"Fixed: ", p>>
RemovedLine(p) == <<"Removed ", p>>

\* Each pattern applied to the text as read, not to the previous result.
SubStepOnOriginal(fx, cont, orig) == ReSub(fx.pat, fx.rep, orig)

\* One turn of fix_file's for loop.
SubStep(fx, cont, orig) == ReSub(fx.pat, fx.rep, cont)

\* The for loop from pair n on.
RECURSIVE ApplyFrom(_, _, _, _)
ApplyFrom(fxs, n, cont, orig) ==
    IF n > Len(fxs) THEN cont
    ELSE ApplyFrom(fxs, n + 1, SubStep(fxs[n], cont, orig), orig)

\* The write made unconditional.
ChangedAlways(cont, orig) == TRUE

\* The lengths compared for the texts.
ChangedLength(cont, orig) == Len(cont) # Len(orig)

\* if content != original
Changed(cont, orig) == cont # orig

\* The wrong variable written back.
WriteOriginal(cont, orig) == orig

\* f.write(content)
WriteData(cont, orig) == cont

\* A whole call of fix_file: the filesystem after it, the lines printed, the
\* operations performed, and whether it raised.
fix_file(fsys, p, fxs) ==
    IF ~Exists(fsys, p)
    THEN [fs |-> fsys, out |-> <<NotFoundLine(p)>>, ops |-> <<Op("exists", p)>>,
          raised |-> FALSE]
    ELSE IF ~fsys[p].e
    THEN [fs |-> fsys, out |-> <<>>, ops |-> <<Op("exists", p), Op("read", p)>>,
          raised |-> TRUE]
    ELSE The({
             IF Changed(cont, orig)
             THEN [fs |-> Overwrite(fsys, p, WriteData(cont, orig)),
                   out |-> <<FixedLine(p)>>,
                   ops |-> <<Op("exists", p), Op("read", p), Op("open_w", p), Op("write", p)>>,
                   raised |-> FALSE]
             ELSE [fs |-> fsys, out |-> <<>>,
                   ops |-> <<Op("exists", p), Op("read", p)>>, raised |-> FALSE]
           : orig \in {fsys[p].d}, cont \in {ApplyFrom(fxs, 1, fsys[p].d, fsys[p].d)} })

\* os.remove(p) without the os.path.exists guard.
RemoveOldUnguarded(fsys, p) ==
    [fs |-> [fsys EXCEPT ![p] = NoFile], out |-> <<RemovedLine(p)>>,
     ops |-> <<Op("remove", p)>>, raised |-> ~fsys[p].e]

\* if os.path.exists(p): os.remove(p); print("Removed p").  os.remove of a
\* missing file raises FileNotFoundError.
RemoveOld(fsys, p) ==
    IF Exists(fsys, p)
    THEN [fs |-> [fsys EXCEPT ![p] = NoFile], out |-> <<RemovedLine(p)>>,
          ops |-> <<Op("exists", p), Op("remove", p)>>, raised |-> ~fsys[p].e]
    ELSE [fs |-> fsys, out |-> <<>>, ops |-> <<Op("exists", p)>>, raised |-> FALSE]

\* What 'npm run lint' may return: subprocess.run(..., capture_output=True, text=True).
LintResults == {
    [rc |-> 0, stdout |-> "lint: no problems", stderr |-> ""],
    [rc |-> 1, stdout |-> "lint: problems found", stderr |-> "npm ERR! code ELIFECYCLE"] }
NoLint == [rc |-> -1, stdout |-> "", stderr |-> ""]

\* subprocess.run(..., check=True): a non-zero exit status raises CalledProcessError.
LintRaisesOnFailure(res) == res.rc # 0

\* subprocess.run is called without check=True: no exit status raises.
LintRaises(res) == FALSE

-----------------------------------------------------------------------------
(* The texts the files hold at the start.                                  *)

\* A text the pattern matches: its literals, one filler chunk for each class
\* that needs a character, a newline before a '^'.
RECURSIVE PatInstance(_)
PatInstance(pat) ==
    IF pat = <<>> THEN <<>>
    ELSE LET e == Head(pat) IN
         (CASE e.t = "lit" -> <<e.s>>
            [] e.t = "bol" -> <<NL>>
            [] OTHER -> IF e.min > 0 THEN <<FILLER>> ELSE <<>>)
         \o PatInstance(Tail(pat))

RECURSIVE TableInstance(_)
TableInstance(fxs) ==
    IF fxs = <<>> THEN <<>>
    ELSE PatInstance(Head(fxs).pat) \o <<FILLER>> \o TableInstance(Tail(fxs))

\* The text of a target file that still has every violation the three
\* scripts look for in it.
RECURSIVE SampleFrom(_, _)
SampleFrom(stmts, p) ==
    IF stmts = <<>> THEN <<>>
    ELSE (IF Head(stmts).op = "fix_file" /\ Head(stmts).path = p
          THEN TableInstance(Head(stmts).fixes) ELSE <<>>)
         \o SampleFrom(Tail(stmts), p)

Sample(p) == SampleFrom(fix_eslint_py \o fix_all_eslint_py \o fix_final_eslint_py, p)

\* The chunks a table's patterns are made of, with the filler.
Alphabet(fxs) ==
    {FILLER}
    \cup UNION {{e.s : e \in {x \in Range(fxs[n].pat) : x.t = "lit"}} : n \in DOMAIN fxs}
    \cup UNION {UNION {e.set \cap {NL, " ", "}"} : e \in {x \in Range(fxs[n].pat) : x.t = "rep"}}
                : n \in DOMAIN fxs}
    \cup UNION {{NL : e \in {x \in Range(fxs[n].pat) : x.t = "bol"}} : n \in DOMAIN fxs}

Texts(A, n) == UNION {[1..m -> A] : m \in 0..n}

RECURSIVE SubsetsUpTo(_, _)
SubsetsUpTo(S, n) ==
    IF n = 0 THEN {{}}
    ELSE LET prev == SubsetsUpTo(S, n - 1)
         IN  prev \cup {s \cup {x} : s \in prev, x \in S}

StaleConfig == <<"(what an earlier tool left here)\n">>

-----------------------------------------------------------------------------
(* Spec: a working tree in which the scripts are run, each to completion,  *)
(* a later revision after an earlier one.  A statement of a module body is *)
(* one step.                                                               *)

NoCall == [pc |-> "idle", filepath |-> "", fixes |-> <<>>, content |-> <<>>,
           original |-> <<>>, i |-> 0]

CallIdle ==
    /\ pc = NoCall.pc /\ filepath = NoCall.filepath /\ fixes = NoCall.fixes
    /\ content = NoCall.content /\ original = NoCall.original /\ i = NoCall.i
    /\ crashed = FALSE

InitialTrees ==
    {[p \in Paths |->
        IF p \in Targets
        THEN (IF p \in missing THEN NoFile ELSE File(Sample(p)))
        ELSE (IF p \in stale THEN File(StaleConfig) ELSE NoFile)]
     : missing \in SubsetsUpTo(Targets, MaxMissing) \cup {Targets},
       stale \in SUBSET ConfigPaths}

Init ==
    /\ fs \in InitialTrees
    /\ before = fs
    /\ script \in Range(Revisions)
    /\ ip = 1
    /\ status = "running"
    /\ console = <<>>
    /\ ops = <<>>
    /\ lint = NoLint
    /\ ran = <<>>
    /\ CallIdle

Running == status = "running" /\ ip <= Len(Program(script))
Cur == Program(script)[ip]

\* What a statement that may raise leaves behind.
After(r) ==
    /\ fs' = r.fs
    /\ console' = console \o r.out
    /\ ops' = ops \o r.ops
    /\ IF r.raised
       THEN status' = "aborted" /\ ip' = ip
       ELSE status' = status /\ ip' = ip + 1

\* fix_file(path, [...])
FixFileStmt ==
    /\ Running /\ Cur.op = "fix_file"
    /\ \E r \in {fix_file(fs, Cur.path, Cur.fixes)} : After(r)
    /\ UNCHANGED <<script, lint, ran, before>> /\ UNCHANGED callVars

\* with open(path, 'w') as f: f.write(data)
WriteStmt ==
    /\ Running /\ Cur.op = "write"
    /\ fs' = Overwrite(fs, Cur.path, Cur.data)
    /\ ops' = ops \o <<Op("open_w", Cur.path), Op("write", Cur.path)>>
    /\ ip' = ip + 1
    /\ UNCHANGED <<console, script, status, lint, ran, before>> /\ UNCHANGED callVars

\* print("...")
PrintStmt ==
    /\ Running /\ Cur.op = "print"
    /\ console' = Append(console, Cur.data)
    /\ ip' = ip + 1
    /\ UNCHANGED <<fs, ops, script, status, lint, ran, before>> /\ UNCHANGED callVars

\* if os.path.exists(path): os.remove(path); print("Removed ...")
RemoveStmt ==
    /\ Running /\ Cur.op = "remove"
    /\ \E r \in {RemoveOld(fs, Cur.path)} : After(r)
    /\ UNCHANGED <<script, lint, ran, before>> /\ UNCHANGED callVars

\* result = subprocess.run(['npm', 'run', 'lint'], capture_output=True, text=True)
LintStmt ==
    /\ Running /\ Cur.op = "lint"
    /\ \E res \in LintResults :
         /\ lint' = res
         /\ IF LintRaises(res)
            THEN status' = "aborted" /\ ip' = ip
            ELSE status' = status /\ ip' = ip + 1
    /\ ops' = Append(ops, Op("run", "npm run lint"))
    /\ UNCHANGED <<fs, console, script, ran, before>> /\ UNCHANGED callVars

\* print(result.stdout)
PrintStdoutStmt ==
    /\ Running /\ Cur.op = "print_stdout"
    /\ console' = Append(console, <<lint.stdout>>)
    /\ ip' = ip + 1
    /\ UNCHANGED <<fs, ops, script, status, lint, ran, before>> /\ UNCHANGED callVars

\* print(result.stderr)
PrintStderrStmt ==
    /\ Running /\ Cur.op = "print_stderr"
    /\ console' = Append(console, <<lint.stderr>>)
    /\ ip' = ip + 1
    /\ UNCHANGED <<fs, ops, script, status, lint, ran, before>> /\ UNCHANGED callVars

\* The interpreter falls off the end of the module and exits.
Exit ==
    /\ status = "running" /\ ip > Len(Program(script))
    /\ status' = "done"
    /\ ran' = Append(ran, script)
    /\ UNCHANGED <<fs, console, ops, script, ip, lint, before>> /\ UNCHANGED callVars

\* The operator runs the next revision in the tree the last one left.
RunNext ==
    /\ status = "done"
    /\ \E n \in 1..(Len(Revisions) - 1) :
         /\ script = Revisions[n]
         /\ script' = Revisions[n + 1]
    /\ ip' = 1
    /\ status' = "running"
    /\ console' = <<>>
    /\ ops' = <<>>
    /\ lint' = NoLint
    /\ before' = fs
    /\ UNCHANGED <<fs, ran>> /\ UNCHANGED callVars

Next ==
    \/ FixFileStmt
    \/ WriteStmt
    \/ PrintStmt
    \/ RemoveStmt
    \/ LintStmt
    \/ PrintStdoutStmt
    \/ PrintStderrStmt
    \/ Exit
    \/ RunNext

Spec == Init /\ [][Next]_vars

\* A running interpreter executes its next statement, and the lint command
\* it waits for returns; nothing obliges the operator to run another script.
Step ==
    \/ FixFileStmt \/ WriteStmt \/ PrintStmt \/ RemoveStmt
    \/ LintStmt \/ PrintStdoutStmt \/ PrintStderrStmt \/ Exit

LiveSpec == Spec /\ WF_vars(Step)

-----------------------------------------------------------------------------
(* FixSpec: one call of fix_file, statement by statement, on every text of *)
(* up to MaxLen chunks over the table's alphabet; the process may be       *)
(* killed between any two steps.                                           *)

FixInit ==
    /\ \E st \in CallSites :
         /\ filepath = st.path
         /\ fixes = st.fixes
         /\ \E f \in {NoFile} \cup {File(t) : t \in Texts(Alphabet(st.fixes), MaxLen)} :
              fs = [p \in Paths |-> IF p = st.path THEN f ELSE NoFile]
    /\ before = fs
    /\ pc = "exists"
    /\ content = <<>>
    /\ original = <<>>
    /\ i = 0
    /\ crashed = FALSE
    /\ console = <<>>
    /\ ops = <<>>
    /\ script = "" /\ ip = 0 /\ status = "call" /\ lint = NoLint /\ ran = <<>>

Alive == ~crashed

\* if not os.path.exists(filepath): print(...); return
fx_exists ==
    /\ Alive /\ pc = "exists"
    /\ ops' = Append(ops, Op("exists", filepath))
    /\ IF Exists(fs, filepath)
       THEN pc' = "read" /\ console' = console
       ELSE pc' = "return" /\ console' = Append(console, NotFoundLine(filepath))
    /\ UNCHANGED <<fs, filepath, fixes, content, original, i, before, crashed>>
    /\ UNCHANGED scriptVars

\* with open(filepath, 'r') as f: content = f.read(); original = content
\* open raises FileNotFoundError when there is no such file.
fx_read ==
    /\ Alive /\ pc = "read"
    /\ ops' = Append(ops, Op("read", filepath))
    /\ IF fs[filepath].e
       THEN /\ content' = fs[filepath].d
            /\ original' = fs[filepath].d
            /\ i' = 1
            /\ pc' = "loop"
       ELSE /\ pc' = "raised"
            /\ UNCHANGED <<content, original, i>>
    /\ UNCHANGED <<fs, console, filepath, fixes, before, crashed>>
    /\ UNCHANGED scriptVars

\* for pattern, replacement in fixes: content = re.sub(...)
fx_sub ==
    /\ Alive /\ pc = "loop" /\ i <= Len(fixes)
    /\ content' = SubStep(fixes[i], content, original)
    /\ i' = i + 1
    /\ UNCHANGED <<fs, console, ops, pc, filepath, fixes, original, before, crashed>>
    /\ UNCHANGED scriptVars

\* if content != original:
fx_compare ==
    /\ Alive /\ pc = "loop" /\ i > Len(fixes)
    /\ pc' = IF Changed(content, original) THEN "open_w" ELSE "return"
    /\ UNCHANGED <<fs, console, ops, filepath, fixes, content, original, i, before, crashed>>
    /\ UNCHANGED scriptVars

\* with open(filepath, 'w') as f:
fx_open_w ==
    /\ Alive /\ pc = "open_w"
    /\ fs' = [fs EXCEPT ![filepath] = Truncate(fs[filepath])]
    /\ ops' = Append(ops, Op("open_w", filepath))
    /\ pc' = "write"
    /\ UNCHANGED <<console, filepath, fixes, content, original, i, before, crashed>>
    /\ UNCHANGED scriptVars

\* f.write(content)
fx_write ==
    /\ Alive /\ pc = "write"
    /\ fs' \in {[fs EXCEPT ![filepath] = f] :
                  f \in Flushed(fs[filepath], WriteData(content, original))}
    /\ ops' = Append(ops, Op("write", filepath))
    /\ pc' = "close"
    /\ UNCHANGED <<console, filepath, fixes, content, original, i, before, crashed>>
    /\ UNCHANGED scriptVars

\* the end of the with block: f is flushed and closed
fx_close ==
    /\ Alive /\ pc = "close"
    \* before[filepath] is the file as open found it
    /\ fs' = Overwrite(before, filepath, WriteData(content, original))
    /\ pc' = "print"
    /\ UNCHANGED <<console, ops, filepath, fixes, content, original, i, before, crashed>>
    /\ UNCHANGED scriptVars

\* print(f"Fixed: {filepath}")
fx_print ==
    /\ Alive /\ pc = "print"
    /\ console' = Append(console, FixedLine(filepath))
    /\ pc' = "return"
    /\ UNCHANGED <<fs, ops, filepath, fixes, content, original, i, before, crashed>>
    /\ UNCHANGED scriptVars

\* The process is killed (a signal) in the middle of the call.
Crash ==
    /\ Alive /\ pc \notin {"return", "raised"}
    /\ crashed' = TRUE
    /\ UNCHANGED <<fs, console, ops, pc, filepath, fixes, content, original, i, before>>
    /\ UNCHANGED scriptVars

FixNext ==
    \/ fx_exists
    \/ fx_read
    \/ fx_sub
    \/ fx_compare
    \/ fx_open_w
    \/ fx_write
    \/ fx_close
    \/ fx_print
    \/ Crash

FixSpec == FixInit /\ [][FixNext]_vars

-----------------------------------------------------------------------------
(* What the properties below speak of.                                     *)

\* The text of fix_file's file when the call began.
Text0 == before[filepath].d

\* sub(pn, rn)(... sub(p1, r1)(text) ...) for the first n pairs.
RECURSIVE Composition(_, _, _)
Composition(fxs, n, text) ==
    IF n = 0 THEN text
    ELSE ReSub(fxs[n].pat, fxs[n].rep, Composition(fxs, n - 1, text))

Patched == Composition(fixes, Len(fixes), Text0)

\* Some pattern of the list matches the text as it was.
MatchesSome == \E n \in DOMAIN fixes : Matches(fixes[n].pat, Text0)

OpsOf(kind) == {k \in DOMAIN ops : ops[k].op = kind}
Wrote == OpsOf("write") # {}
Printed(line) == \E k \in DOMAIN console : console[k] = line
PrintedFixed == Printed(FixedLine(filepath))

\* The statements of a module body that touch the filesystem, as the
\* operation each of them always starts with.
RECURSIVE ExpectedSkeleton(_)
ExpectedSkeleton(stmts) ==
    IF stmts = <<>> THEN <<>>
    ELSE LET st == Head(stmts) IN
         (CASE st.op \in {"fix_file", "remove"} -> <<Op("exists", st.path)>>
            [] st.op = "write" -> <<Op("open_w", st.path)>>
            [] OTHER -> <<>>)
         \o ExpectedSkeleton(Tail(stmts))

IsSkeletonOp(o) == o.op = "exists" \/ (o.op = "open_w" /\ o.path \in ConfigPaths)
Skeleton(oplist) == SelectSeq(oplist, IsSkeletonOp)

IndexOf(stmts, op, path) == CHOOSE n \in DOMAIN stmts : stmts[n].op = op /\ stmts[n].path = path

-----------------------------------------------------------------------------
(* Properties of one fix_file call (FixSpec).                              *)

\* C1: when the file exists and no pattern of the list matches its text, the
\* call never writes: the filesystem stays as it was, no write is performed
\* and no "Fixed" line is printed.
C1_NoMatchInert ==
    (before[filepath].e /\ ~MatchesSome) =>
        /\ fs = before
        /\ OpsOf("open_w") = {} /\ OpsOf("write") = {}
        /\ ~PrintedFixed
        /\ pc # "raised"

C1_Witness ==
    /\ pc = "return" /\ before[filepath].e /\ ~MatchesSome
    /\ Len(Text0) >= 2 /\ Len(fixes) >= 2 /\ i > Len(fixes)

\* C2 as stated: whenever the file exists and some pattern matches its text,
\* the call ends with the file holding the replacement text and with a
\* "Fixed" line printed.
C2_MatchAlwaysFixed ==
    (pc = "return" /\ before[filepath].e /\ MatchesSome) =>
        /\ fs[filepath] = File(Patched)
        /\ PrintedFixed

\* C2 amended: whenever the file exists and some pattern matches its text,
\* the call ends with the file holding the replacement text, and a "Fixed"
\* line is printed exactly when that text differs from the original.
C2_MatchFixedWhenDifferent ==
    (pc = "return" /\ before[filepath].e /\ MatchesSome) =>
        /\ fs[filepath] = File(Patched)
        /\ PrintedFixed <=> (Patched # Text0)

C2_Witness ==
    /\ pc = "return" /\ fixes = F_chat /\ before[filepath].e /\ MatchesSome
    /\ Patched # Text0 /\ fs[filepath] = File(Patched) /\ PrintedFixed

\* C3: when the file does not exist the call prints "File not found: <path>"
\* and returns without raising; it neither reads nor writes nor creates the
\* file, and the filesystem is unchanged.
C3_MissingFileSkipped ==
    ~before[filepath].e =>
        /\ fs = before
        /\ pc \in {"exists", "return"}
        /\ \A k \in DOMAIN ops : ops[k] = Op("exists", filepath)
        /\ pc = "return" => console = <<NotFoundLine(filepath)>>

C3_Witness ==
    /\ pc = "return" /\ ~before[filepath].e
    /\ console = <<NotFoundLine(filepath)>> /\ ~fs[filepath].e

\* C4: a call opens the file for writing and writes it at most once, and
\* when it has returned it has written, and printed "Fixed", exactly when the
\* text after all substitutions differs from the text it read; substitutions
\* that match but leave the text equal cause no write and no message.
C4_WriteIffChanged ==
    /\ Cardinality(OpsOf("open_w")) <= 1
    /\ Cardinality(OpsOf("write")) <= 1
    /\ (pc = "return" /\ before[filepath].e) =>
          /\ original = Text0
          /\ Wrote <=> (content # original)
          /\ PrintedFixed <=> (content # original)
          /\ ~Wrote => fs = before

C4_Witness ==
    /\ pc = "return" /\ before[filepath].e /\ MatchesSome
    /\ content = original /\ ~Wrote /\ ~PrintedFixed

\* C5: the pairs are applied once each, in list order, each to the text the
\* previous one produced: entering turn i of the loop the text is the
\* composition of the first i-1 substitutions on the original, and the text
\* the call persists is the composition of all of them.
C5_OrderedComposition ==
    /\ pc = "loop" => content = Composition(fixes, i - 1, Text0)
    /\ (pc \in {"print", "return"} /\ Wrote) => fs[filepath] = File(Patched)

\* ': any[]' is rewritten before 'onChange: (messages: any[])' is tried.
C5_Witness ==
    /\ pc = "return" /\ fixes = E_assistant
    /\ Text0 = <<"onChange: (messages", ": any[]", ")">>
    /\ fs[filepath] = File(<<"onChange: (messages", ": unknown[]", ")">>)

\* C6 as stated: whenever the process is killed during a call on an existing
\* file, the file holds either the complete original text or the complete
\* patched text.
C6_NeverCorrupted ==
    (crashed /\ before[filepath].e) =>
        fs[filepath] \in {before[filepath], File(Patched)}

IsPrefix(s, t) == Len(s) <= Len(t) /\ SubSeq(t, 1, Len(s)) = s

\* C6 amended: until the file is opened for writing it holds the complete
\* original text, and once the with block has closed it holds the complete
\* patched text; between the two, open(filepath, 'w') has emptied it and it
\* holds only what has been flushed, a prefix of the patched text.
C6_TornOnlyInsideWrite ==
    before[filepath].e =>
        /\ pc \in {"exists", "read", "loop", "open_w"} => fs[filepath] = before[filepath]
        /\ pc = "write" => fs[filepath] = File(<<>>)
        /\ pc = "close" => IsPrefix(fs[filepath].d, Patched)
        /\ pc = "print" => fs[filepath] = File(Patched)
        /\ pc = "return" => fs[filepath] = File(Patched)

C6_Witness ==
    /\ crashed /\ pc = "write" /\ Text0 # <<>> /\ Patched # <<>>
    /\ fs[filepath] = File(<<>>)

-----------------------------------------------------------------------------
(* Properties of the script runs (Spec).                                   *)

\* C7: in a run, 'npm run lint' is invoked at most once, exactly once by the
\* time the run is done; when it is invoked every fix_file call and every
\* configuration step of the script has been made, in order, and the script
\* performs no filesystem operation after it.
C7_LintOnceAfterAll ==
    /\ Cardinality(OpsOf("run")) <= 1
    /\ status = "done" => Cardinality(OpsOf("run")) = 1
    /\ \A k \in OpsOf("run") :
          /\ k = Len(ops)
          /\ Skeleton(ops) = ExpectedSkeleton(Program(script))

C7_Witness ==
    /\ status = "done" /\ script = "fix_final_eslint.py"
    /\ OpsOf("run") # {} /\ OpsOf("remove") # {} /\ OpsOf("write") # {}

\* C8: no run aborts, whichever target files are missing and whatever the
\* lint command returns: a run that is done has checked every target of its
\* table in table order, has reported each missing one, has invoked the lint
\* command and has printed its stdout and then its stderr last; and every
\* run that has started gets done.
C8_Completed ==
    /\ status # "aborted"
    /\ status = "done" =>
          /\ Skeleton(ops) = ExpectedSkeleton(Program(script))
          /\ \A st \in Range(Program(script)) :
                (st.op = "fix_file" /\ ~before[st.path].e) =>
                    Printed(NotFoundLine(st.path))
          /\ lint \in LintResults
          /\ Len(console) >= 2
          /\ console[Len(console) - 1] = <<lint.stdout>>
          /\ console[Len(console)] = <<lint.stderr>>

C8_MissingIsSkip == []C8_Completed /\ ((status = "running") ~> (status = "done"))

C8_Witness ==
    /\ status = "done" /\ lint.rc = 1
    /\ \A st \in Range(Program(script)) : st.op = "fix_file" => ~before[st.path].e
    /\ script = "fix_eslint.py"

\* C9: after the write step of fix_final_eslint.py, eslint.config.mjs holds
\* exactly the eslint_config text, and after the write step of
\* fix_all_eslint.py, .eslintignore holds exactly the eslintignore text,
\* whatever the file held before and whether or not it existed.
C9_ConfigReadBack ==
    /\ (script = "fix_final_eslint.py"
        /\ ip > IndexOf(fix_final_eslint_py, "write", EslintConfigPath))
          => fs[EslintConfigPath] = File(eslint_config)
    /\ (script = "fix_all_eslint.py"
        /\ ip > IndexOf(fix_all_eslint_py, "write", EslintIgnorePath))
          => fs[EslintIgnorePath] = File(eslintignore)

C9_Witness ==
    /\ script = "fix_final_eslint.py"
    /\ ip = IndexOf(fix_final_eslint_py, "write", EslintConfigPath) + 1
    /\ before[EslintConfigPath] = File(StaleConfig)
    /\ fs[EslintConfigPath] = File(eslint_config)

\* C10: in fix_final_eslint.py, once both removal steps have run, neither
\* .eslintrc.json nor .eslintignore exists; each was removed, with its
\* "Removed" line, exactly when it was there, nothing was raised, and the
\* run goes on to invoke the lint command.
C10_RemoveMissingIsNoop ==
    script = "fix_final_eslint.py" =>
        /\ status # "aborted"
        /\ ip > IndexOf(fix_final_eslint_py, "remove", EslintIgnorePath) =>
              /\ \A p \in {EslintRcPath, EslintIgnorePath} :
                    /\ ~fs[p].e
                    /\ Printed(RemovedLine(p)) <=> before[p].e
                    /\ (\E k \in OpsOf("remove") : ops[k].path = p) <=> before[p].e
        /\ status = "done" => OpsOf("run") # {}

\* .eslintignore was created by an earlier fix_all_eslint.py run and
\* .eslintrc.json was never there.
C10_Witness ==
    /\ script = "fix_final_eslint.py" /\ status = "done"
    /\ ran = <<"fix_all_eslint.py", "fix_final_eslint.py">>
    /\ before[EslintIgnorePath] = File(eslintignore)
    /\ ~before[EslintRcPath].e
    /\ ~fs[EslintIgnorePath].e /\ ~fs[EslintRcPath].e
    /\ Printed(RemovedLine(EslintIgnorePath)) /\ ~Printed(RemovedLine(EslintRcPath))

====
